---- MODULE Spec2Model ----
(***************************************************************************)
(* Wildfire risk pipeline of backend/main.py: the NASA FIRMS fire feed     *)
(* fetch, the per-county Open-Meteo weather sampling and risk scoring, the *)
(* merge into one feature list, and the alerts / statistics endpoints.     *)
(*                                                                         *)
(* Units.  Coordinates are integers in 1/10000 degree.  Temperature,       *)
(* humidity and wind speed are integers in 1/100 of their unit, and        *)
(* precipitation is in 1/1000, so that round(x, 1) and round(x, 2) are     *)
(* real conversions (to 1/10 and to 1/100).  A CSV line is represented by  *)
(* the list of fields line.split(',') returns.                             *)
(***************************************************************************)
EXTENDS Integers, Sequences, FiniteSets, TLC

VARIABLES op, pc, pending, fire_reqs, fire_resp, fires, idx, wx_requested,
          wx_resps, weather_risks, features, result, probe

vars == <<op, pc, pending, fire_reqs, fire_resp, fires, idx, wx_requested,
          wx_resps, weather_risks, features, result, probe>>

(***************************************************************************)
(* Bounds of the model.                                                    *)
(***************************************************************************)
\* number of entries of texas_counties that are sampled
NumCounties == 3

\* largest number of lines in a fire feed body parsed on its own
MaxFeedLines == 3

\* largest number of lines in a fire feed body
MaxLines == 2

(***************************************************************************)
(* Generic helpers.                                                        *)
(***************************************************************************)
Range(s) == {s[k] : k \in DOMAIN s}

SeqsUpTo(S, n) == UNION {[1..k -> S] : k \in 0..n}

\* dict.get(key, default)
Get(d, key, default) == IF key \in DOMAIN d THEN d[key] ELSE default

\* the outcome of a call: a returned value or a raised exception
Return(v) == [raised |-> "none", value |-> v]

Raise(e) == [raised |-> e, value |-> <<>>]

(***************************************************************************)
(* get_active_fires_texas: the fire feed.                                  *)
(***************************************************************************)
texas_bbox == [min_lat |-> 258000, max_lat |-> 365000,
               min_lon |-> -1066000, max_lon |-> -935000]

\* float(s) on the field strings the feed lines below are made of
ParseFloat(s) ==
    CASE s = "29.5"  -> [ok |-> TRUE, nan |-> FALSE, v |-> 295000]
      [] s = "-95.1" -> [ok |-> TRUE, nan |-> FALSE, v |-> -951000]
      [] s = "36.5"  -> [ok |-> TRUE, nan |-> FALSE, v |-> 365000]
      [] s = "-93.5" -> [ok |-> TRUE, nan |-> FALSE, v |-> -935000]
      [] s = "36.6"  -> [ok |-> TRUE, nan |-> FALSE, v |-> 366000]
      [] s = "0"     -> [ok |-> TRUE, nan |-> FALSE, v |-> 0]
      [] s = "nan"   -> [ok |-> TRUE, nan |-> TRUE, v |-> 0]
      [] OTHER       -> [ok |-> FALSE, nan |-> FALSE, v |-> 0]

\* Between with the bounds exclusive
Between_exclusive(lo, x, hi) == ~x.nan /\ lo < x.v /\ x.v < hi

\* min <= x <= max on floats: every comparison with nan is false
Between(lo, x, hi) == ~x.nan /\ lo <= x.v /\ x.v <= hi

InTexas(lat, lon) ==
    /\ Between(texas_bbox.min_lat, lat, texas_bbox.max_lat)
    /\ Between(texas_bbox.min_lon, lon, texas_bbox.max_lon)

FireFeature(values, lat, lon) ==
    [type |-> "Feature",
     geometry |-> [type |-> "Point", coordinates |-> <<lon.v, lat.v>>],
     properties |->
        [type |-> "active_fire",
         confidence |-> IF Len(values) > 8 THEN values[9] ELSE "unknown",
         brightness |-> IF Len(values) > 2 THEN values[3] ELSE "unknown",
         acq_date |-> IF Len(values) > 5 THEN values[6] ELSE "unknown"]]

\* the body of "for line in lines[1:]": the features one data row appends
ParseRow(values) ==
    IF Len(values) >= 4
    THEN LET lat == ParseFloat(values[1])
             lon == ParseFloat(values[2])
         IN  IF ~lat.ok \/ ~lon.ok
             THEN <<>>                       \* ValueError: continue
             ELSE IF InTexas(lat, lon)
                  THEN <<FireFeature(values, lat, lon)>>
                  ELSE <<>>
    ELSE <<>>

RECURSIVE ParseRows(_)
ParseRows(rows) ==
    IF rows = <<>> THEN <<>>
    ELSE ParseRow(Head(rows)) \o ParseRows(Tail(rows))

IsBlank(line) == line = <<"">>

\* text.strip().split('\n'): blank lines at both ends are stripped, and the
\* empty text splits into one empty line
RECURSIVE StripLeft(_)
StripLeft(ls) ==
    IF ls # <<>> /\ IsBlank(Head(ls)) THEN StripLeft(Tail(ls)) ELSE ls

RECURSIVE StripRight(_)
StripRight(ls) ==
    IF ls # <<>> /\ IsBlank(ls[Len(ls)])
    THEN StripRight(SubSeq(ls, 1, Len(ls) - 1))
    ELSE ls

StripSplit(text) ==
    LET s == StripRight(StripLeft(text))
    IN  IF s = <<>> THEN << <<"">> >> ELSE s

ParseCsv(text) ==
    LET lines == StripSplit(text)
    IN  IF Len(lines) > 1 THEN ParseRows(Tail(lines)) ELSE <<>>

\* get_active_fires_texas without the except around client.get
get_active_fires_texas_uncaught(resp) ==
    IF resp.kind = "exception"
    THEN Raise("RequestError")
    ELSE IF resp.status_code = 200
         THEN Return(ParseCsv(resp.text))
         ELSE Return(<<>>)

get_active_fires_texas(resp) ==
    IF resp.kind = "exception"
    THEN Return(<<>>)                        \* except Exception: return []
    ELSE IF resp.status_code = 200
         THEN Return(ParseCsv(resp.text))
         ELSE Return(<<>>)

\* the feed lines the upstream is taken to send
HeaderLine == <<"latitude", "longitude", "brightness", "scan", "track",
                "acq_date", "acq_time", "satellite", "confidence">>

FeedLines ==
    { HeaderLine,
      <<"29.5", "-95.1", "310.2", "1.0", "1.0", "2024-01-01", "0130", "T", "80">>,
      <<"36.5", "-93.5", "305.0", "1.2">>,
      <<"0", "0", "300.1", "1.0", "1.0", "2024-01-02">>,
      <<"36.6", "-95.1", "299.0", "1.1">>,
      <<"29.5", "-95.1", "310.2">>,
      <<"abc", "-95.1", "310.2", "1.0">>,
      <<"nan", "-95.1", "310.2", "1.0">>,
      <<"">> }

FireResponses ==
    {[kind |-> "exception", status_code |-> 0, text |-> <<>>]}
    \cup {[kind |-> "response", status_code |-> 500, text |-> <<>>]}
    \cup {[kind |-> "response", status_code |-> 200, text |-> t] :
             t \in SeqsUpTo(FeedLines, MaxLines)}

(***************************************************************************)
(* get_weather_risk_texas: scoring of one observation.                     *)
(***************************************************************************)
AllCounties ==
    << [name |-> "Harris",  fips |-> "48201", lat |-> 298580, lon |-> -953885],
       [name |-> "Dallas",  fips |-> "48113", lat |-> 327668, lon |-> -967780],
       [name |-> "Tarrant", fips |-> "48439", lat |-> 327555, lon |-> -973308],
       [name |-> "Bexar",   fips |-> "48029", lat |-> 294498, lon |-> -985254],
       [name |-> "Travis",  fips |-> "48453", lat |-> 303323, lon |-> -977663] >>

texas_counties == SubSeq(AllCounties, 1, NumCounties)

\* a JSON number (in the fixed-point unit of its field) and JSON null
JNum(n) == [t |-> "num", v |-> n]

JNull == [t |-> "null", v |-> 0]

DefaultTemp == JNum(7000)

DefaultHumidity == JNum(5000)

DefaultWind == JNum(500)

DefaultPrecip == JNum(0)

\* the four readings, with the defaults of current.get(...)
Readings(current) ==
    [temp |-> Get(current, "temperature_2m", DefaultTemp),
     humidity |-> Get(current, "relative_humidity_2m", DefaultHumidity),
     wind_speed |-> Get(current, "wind_speed_10m", DefaultWind),
     precipitation |-> Get(current, "precipitation", DefaultPrecip)]

\* Clamp without the upper limit
Clamp_floor_only(s) == IF s > 0 THEN s ELSE 0

Clamp(s) ==
    LET m == IF s < 100 THEN s ELSE 100      \* min(100, risk_score)
    IN  IF m > 0 THEN m ELSE 0               \* max(0, ...)

\* the FIRE RISK CALCULATION block, statement by statement
RiskScore(r) ==
    LET s0 == 0
        s1 == IF r.temp.v > 7500 THEN s0 + 10 ELSE s0
        s2 == IF r.temp.v > 8500 THEN s1 + 15 ELSE s1
        s3 == IF r.temp.v > 9500 THEN s2 + 15 ELSE s2
        s4 == IF r.humidity.v < 4000 THEN s3 + 10 ELSE s3
        s5 == IF r.humidity.v < 2500 THEN s4 + 15 ELSE s4
        s6 == IF r.humidity.v < 1500 THEN s5 + 10 ELSE s5
        s7 == IF r.wind_speed.v > 1000 THEN s6 + 10 ELSE s6
        s8 == IF r.wind_speed.v > 2000 THEN s7 + 10 ELSE s7
        s9 == IF r.wind_speed.v > 3000 THEN s8 + 10 ELSE s8
        s10 == IF r.precipitation.v > 0 THEN s9 - 20 ELSE s9
    IN  Clamp(s10)

\* RiskLevel with the extreme threshold exclusive
RiskLevel_strict(risk_score) ==
    IF risk_score > 76 THEN "extreme"
    ELSE IF risk_score >= 51 THEN "high"
    ELSE IF risk_score >= 26 THEN "moderate"
    ELSE "low"

RiskLevel(risk_score) ==
    IF risk_score >= 76 THEN "extreme"
    ELSE IF risk_score >= 51 THEN "high"
    ELSE IF risk_score >= 26 THEN "moderate"
    ELSE "low"

RiskColor(risk_score) ==
    IF risk_score >= 76 THEN "#8B0000"
    ELSE IF risk_score >= 51 THEN "#FF4500"
    ELSE IF risk_score >= 26 THEN "#FFA500"
    ELSE "#90EE90"

\* round(x, n) dropping one decimal digit of the fixed-point value: to the
\* nearest, a tie to the even neighbour
RoundDigit(x) ==
    LET q == x \div 10
        r == x % 10
    IN  IF r < 5 THEN q
        ELSE IF r > 5 THEN q + 1
        ELSE IF q % 2 = 0 THEN q ELSE q + 1

WeatherFeature(county, r) ==
    LET risk_score == RiskScore(r)
    IN  [type |-> "Feature",
         geometry |-> [type |-> "Point",
                       coordinates |-> <<county.lon, county.lat>>],
         properties |->
            [type |-> "weather_risk",
             county |-> county.name,
             fips |-> county.fips,
             risk_level |-> RiskLevel(risk_score),
             risk_score |-> risk_score,
             color |-> RiskColor(risk_score),
             temperature |-> RoundDigit(r.temp.v),
             humidity |-> RoundDigit(r.humidity.v),
             wind_speed |-> RoundDigit(r.wind_speed.v),
             precipitation |-> RoundDigit(r.precipitation.v)]]

\* the body of the try block for one county: what it appends, or what it raises
SamplePoint(county, resp) ==
    IF resp.kind = "exception" THEN Raise("RequestError")
    ELSE IF resp.status_code # 200 THEN Return(<<>>)
    ELSE IF resp.body.json = "invalid" THEN Raise("JSONDecodeError")
    ELSE LET current == Get(resp.body.data, "current", <<>>)
             r == Readings(current)
         IN  IF \E k \in DOMAIN r : r[k].t # "num"
             THEN Raise("TypeError")         \* None compared with a number
             ELSE Return(<<WeatherFeature(county, r)>>)

\* TrySample with the exception raised again after it is printed
TrySample_reraise(county, resp) ==
    LET r == SamplePoint(county, resp)
    IN  [raised |-> r.raised, value |-> r.value, sleep |-> r.raised = "none"]

\* the try / except Exception / continue around it: sleep is whether the
\* iteration reaches asyncio.sleep
TrySample(county, resp) ==
    LET r == SamplePoint(county, resp)
    IN  IF r.raised # "none"
        THEN [raised |-> "none", value |-> <<>>, sleep |-> FALSE]
        ELSE [raised |-> "none", value |-> r.value, sleep |-> TRUE]

\* the weather responses the upstream is taken to send
JsonObject(d) == [json |-> "object", data |-> d]

JsonInvalid == [json |-> "invalid", data |-> <<>>]

Current(t, h, w, p) ==
    [temperature_2m |-> t, relative_humidity_2m |-> h,
     wind_speed_10m |-> w, precipitation |-> p]

WeatherBodies ==
    { JsonInvalid,
      JsonObject(<<>>),
      JsonObject([current |-> Current(JNum(10000), JNum(1000), JNum(3500), JNum(0))]),
      JsonObject([current |-> Current(JNum(9000), JNum(2000), JNum(1500), JNum(0))]),
      JsonObject([current |-> Current(JNum(8000), JNum(3000), JNum(1234), JNum(0))]) }

WeatherResponses ==
    {[kind |-> "exception", status_code |-> 0, body |-> JsonInvalid]}
    \cup {[kind |-> "response", status_code |-> 500, body |-> JsonInvalid]}
    \cup {[kind |-> "response", status_code |-> 200, body |-> b] :
             b \in WeatherBodies}

(***************************************************************************)
(* calculate_risk_zones and the three endpoints.                           *)
(***************************************************************************)
\* RadiusKm with the wide radius given to high as well
RadiusKm_high_too(risk_level) ==
    IF risk_level \in {"extreme", "high"} THEN 50 ELSE 30

RadiusKm(risk_level) == IF risk_level = "extreme" THEN 50 ELSE 30

\* {**props, "radius_km": radius_km}
WithRadius(props, radius_km) ==
    [k \in DOMAIN props \cup {"radius_km"} |->
        IF k = "radius_km" THEN radius_km ELSE props[k]]

RiskZone(risk) ==
    [type |-> "Feature",
     geometry |-> [type |-> "Point",
                   coordinates |-> risk.geometry.coordinates],
     properties |-> WithRadius(risk.properties,
                               RadiusKm(risk.properties.risk_level))]

\* calculate_risk_zones extending with the fires after the zones
calculate_risk_zones_zones_first(fs, weather_risk) ==
    [k \in 1..Len(weather_risk) |-> RiskZone(weather_risk[k])] \o fs

calculate_risk_zones(fs, weather_risk) ==
    fs \o [k \in 1..Len(weather_risk) |-> RiskZone(weather_risk[k])]

\* the collection get_wildfire_risk returns (the timestamp is left out)
Snapshot(fs, weather_risk) ==
    [type |-> "FeatureCollection",
     features |-> calculate_risk_zones(fs, weather_risk),
     metadata |-> [source |-> "NASA FIRMS + Weather Data",
                   update_frequency |-> "6 hours"]]

\* d[key]
Index(d, key) == IF key \in DOMAIN d THEN Return(d[key]) ELSE Raise("KeyError")

\* str.upper() on the level names
Upper(s) ==
    CASE s = "low" -> "LOW"
      [] s = "moderate" -> "MODERATE"
      [] s = "high" -> "HIGH"
      [] s = "extreme" -> "EXTREME"
      [] OTHER -> s

\* the body of the alerts loop for one feature; the message is the tuple of
\* the values the f-string embeds, in order
AlertFor(props) ==
    IF Get(props, "type", "None") # "weather_risk" THEN Return(<<>>)
    ELSE IF props["risk_level"] \notin {"high", "extreme"} THEN Return(<<>>)
    ELSE LET location == Index(props, "location")
         IN  IF location.raised # "none" THEN Raise(location.raised)
             ELSE Return(<<[location |-> location.value,
                            level |-> props["risk_level"],
                            message |-> <<Upper(props["risk_level"]),
                                          location.value,
                                          props["temperature"],
                                          props["humidity"],
                                          props["wind_speed"]>>]>>)

RECURSIVE AlertsFrom(_, _)
AlertsFrom(fs, alerts) ==
    IF fs = <<>> THEN Return(alerts)
    ELSE LET a == AlertFor(Head(fs).properties)
         IN  IF a.raised # "none" THEN Raise(a.raised)
             ELSE AlertsFrom(Tail(fs), alerts \o a.value)

\* the responses: status 200 with a body, or status 500 with the exception
Ok(body) == [status |-> 200, error |-> "none", body |-> body]

ServerError(e) == [status |-> 500, error |-> e, body |-> <<>>]

get_wildfire_alerts(risk_data) ==
    LET a == AlertsFrom(risk_data.features, <<>>)
    IN  IF a.raised # "none" THEN ServerError(a.raised)
        ELSE Ok([alerts |-> a.value, count |-> Len(a.value)])

RECURSIVE CountFires(_)
CountFires(fs) ==
    IF fs = <<>> THEN 0
    ELSE (IF Get(Head(fs).properties, "type", "None") = "active_fire"
          THEN 1 ELSE 0) + CountFires(Tail(fs))

\* RiskCounts without the test of the feature type
RECURSIVE RiskCounts_any_type(_, _)
RiskCounts_any_type(fs, risk_counts) ==
    IF fs = <<>> THEN risk_counts
    ELSE LET level == Get(Head(fs).properties, "risk_level", "low")
         IN  RiskCounts_any_type(Tail(fs),
                [risk_counts EXCEPT ![level] = risk_counts[level] + 1])

RECURSIVE RiskCounts(_, _)
RiskCounts(fs, risk_counts) ==
    IF fs = <<>> THEN risk_counts
    ELSE LET props == Head(fs).properties
         IN  IF Get(props, "type", "None") = "weather_risk"
             THEN LET level == Get(props, "risk_level", "low")
                  IN  RiskCounts(Tail(fs),
                        [risk_counts EXCEPT ![level] = risk_counts[level] + 1])
             ELSE RiskCounts(Tail(fs), risk_counts)

get_wildfire_stats(risk_data) ==
    Ok([active_fires |-> CountFires(risk_data.features),
        risk_zones |-> RiskCounts(risk_data.features,
                         [low |-> 0, moderate |-> 0, high |-> 0, extreme |-> 0])])

\* Respond with an empty collection turned into a failure
Respond_fail_when_empty(o, risk_data) ==
    IF risk_data.features = <<>> THEN ServerError("AggregationFailure")
    ELSE CASE o = "risk" -> Ok(risk_data)
           [] o = "alerts" -> get_wildfire_alerts(risk_data)
           [] o = "stats" -> get_wildfire_stats(risk_data)

\* what endpoint o answers once get_wildfire_risk has returned risk_data
Respond(o, risk_data) ==
    CASE o = "risk" -> Ok(risk_data)
      [] o = "alerts" -> get_wildfire_alerts(risk_data)
      [] o = "stats" -> get_wildfire_stats(risk_data)

Endpoints == {"risk", "alerts", "stats"}

(***************************************************************************)
(* The request handler as a state machine.  pc is the await the coroutine  *)
(* is suspended at; pending is the set of upstream requests outstanding;   *)
(* fire_reqs, fire_resp, wx_requested and wx_resps record the upstream     *)
(* traffic of the operation in progress.                                   *)
(***************************************************************************)
NoProbe == [phase |-> "off"]

Idle ==
    /\ op = "none"
    /\ pc = "idle"
    /\ pending = {}
    /\ fire_reqs = 0
    /\ fire_resp = [kind |-> "none", status_code |-> 0]
    /\ fires = <<>>
    /\ idx = 0
    /\ wx_requested = <<>>
    /\ wx_resps = <<>>
    /\ weather_risks = <<>>
    /\ features = <<>>
    /\ result = [status |-> 0, error |-> "none", body |-> <<>>]

Init == Idle /\ probe = NoProbe

\* Request with both fetches started by asyncio.gather
Request_gather(o) ==
    /\ pc = "idle"
    /\ op' = o
    /\ pc' = "fire_get"
    /\ pending' = {"fire", "weather"}
    /\ fire_reqs' = fire_reqs + 1
    /\ idx' = 1
    /\ wx_requested' = <<1>>
    /\ UNCHANGED <<fire_resp, fires, wx_resps, weather_risks, features,
                   result, probe>>

\* Request with the summary endpoints answering from the last snapshot kept
Request_cached(o) ==
    /\ pc = "idle"
    /\ op' = o
    /\ IF o \in {"alerts", "stats"}
       THEN /\ pc' = "done"
            /\ result' = Respond(o, Snapshot(fires, weather_risks))
            /\ UNCHANGED <<pending, fire_reqs>>
       ELSE /\ pc' = "fire_get"
            /\ pending' = {"fire"}
            /\ fire_reqs' = fire_reqs + 1
            /\ UNCHANGED result
    /\ UNCHANGED <<fire_resp, fires, idx, wx_requested, wx_resps,
                   weather_risks, features, probe>>

\* an endpoint is invoked: it runs to "await client.get(url)" of
\* get_active_fires_texas (the summary endpoints through
\* "risk_data = await get_wildfire_risk()")
Request(o) ==
    /\ pc = "idle"
    /\ op' = o
    /\ pc' = "fire_get"
    /\ pending' = {"fire"}
    /\ fire_reqs' = fire_reqs + 1
    /\ UNCHANGED <<fire_resp, fires, idx, wx_requested, wx_resps,
                   weather_risks, features, result, probe>>

\* get_wildfire_risk's "except Exception: raise HTTPException(500)"
Fail(e) ==
    /\ pc' = "done"
    /\ pending' = {}
    /\ result' = ServerError(e)
    /\ UNCHANGED <<op, fire_reqs, idx, wx_requested, features, probe>>

\* the top of "for county in texas_counties" for county k: up to its
\* "await client.get(url)"
SampleCounty(k) ==
    /\ idx' = k
    /\ wx_requested' = Append(wx_requested, k)
    /\ pending' = {"weather"}
    /\ pc' = "wx_get"
    /\ UNCHANGED <<op, fire_reqs, features, result, probe>>

\* the loop is over: get_weather_risk_texas returns, calculate_risk_zones
\* merges, get_wildfire_risk returns and the endpoint answers
Finish(wr) ==
    LET risk_data == Snapshot(fires', wr)
    IN  /\ features' = risk_data.features
        /\ result' = Respond(op, risk_data)
        /\ pending' = {}
        /\ pc' = "done"
        /\ UNCHANGED <<op, fire_reqs, idx, wx_requested, probe>>

\* the next iteration of the loop, or its end
NextCounty ==
    IF idx < Len(texas_counties)
    THEN SampleCounty(idx + 1)
    ELSE Finish(weather_risks')

\* the fire feed answers (or the request fails): get_active_fires_texas
\* returns and get_weather_risk_texas runs to its first request
FireResponse(resp) ==
    /\ pc = "fire_get"
    /\ fire_resp' = [kind |-> resp.kind, status_code |-> resp.status_code]
    /\ LET r == get_active_fires_texas(resp)
       IN  IF r.raised # "none"
           THEN /\ Fail(r.raised)
                /\ UNCHANGED <<fires, weather_risks, wx_resps>>
           ELSE /\ fires' = r.value
                /\ weather_risks' = <<>>
                /\ SampleCounty(1)
                /\ UNCHANGED wx_resps

\* the weather service answers for county idx (or the request fails)
WeatherResponse(resp) ==
    /\ pc = "wx_get"
    /\ wx_resps' = Append(wx_resps, resp)
    /\ LET r == TrySample(texas_counties[idx], resp)
       IN  IF r.raised # "none"
           THEN /\ Fail(r.raised)
                /\ UNCHANGED <<fires, weather_risks, fire_resp>>
           ELSE /\ weather_risks' = weather_risks \o r.value
                /\ UNCHANGED <<fires, fire_resp>>
                /\ IF r.sleep
                   THEN /\ pc' = "wx_sleep"
                        /\ pending' = {}
                        /\ UNCHANGED <<op, fire_reqs, idx, wx_requested,
                                       features, result, probe>>
                   ELSE NextCounty

\* "await asyncio.sleep(0.05)" is over
SleepDone ==
    /\ pc = "wx_sleep"
    /\ UNCHANGED <<fires, fire_resp, weather_risks, wx_resps>>
    /\ NextCounty

\* the response has been sent; the server is ready for the next request
Deliver ==
    /\ pc = "done"
    /\ op' = "none"
    /\ pc' = "idle"
    /\ pending' = {}
    /\ fire_reqs' = 0
    /\ fire_resp' = [kind |-> "none", status_code |-> 0]
    /\ fires' = <<>>
    /\ idx' = 0
    /\ wx_requested' = <<>>
    /\ wx_resps' = <<>>
    /\ weather_risks' = <<>>
    /\ features' = <<>>
    /\ result' = [status |-> 0, error |-> "none", body |-> <<>>]
    /\ UNCHANGED probe

Next ==
    \/ \E o \in Endpoints : Request(o)
    \/ \E resp \in FireResponses : FireResponse(resp)
    \/ \E resp \in WeatherResponses : WeatherResponse(resp)
    \/ SleepDone
    \/ Deliver

Spec == Init /\ [][Next]_vars

(***************************************************************************)
(* The scoring block on its own: one 200 response for the first county,    *)
(* its readings drawn from values on both sides of every threshold, far    *)
(* outside the physical range, absent, and (the temperature) null.         *)
(***************************************************************************)
ProbeTemps == {-4000, 6000, 7500, 7501, 8500, 8501, 9500, 9501, 20000}

ProbeHumidities == {-500, 0, 1499, 1500, 2499, 2500, 3999, 4000, 8000, 10000}

ProbeWinds == {-300, 200, 1000, 1001, 2000, 2001, 3000, 3001, 3500, 30000}

ProbePrecips == {-1000, 0, 1, 100}

CurrentKeys == {"temperature_2m", "relative_humidity_2m", "wind_speed_10m",
                "precipitation"}

ProbeCurrents ==
    {[k \in present |-> full[k]] :
        full \in [temperature_2m : {JNum(n) : n \in ProbeTemps} \cup {JNull},
                  relative_humidity_2m : {JNum(n) : n \in ProbeHumidities},
                  wind_speed_10m : {JNum(n) : n \in ProbeWinds},
                  precipitation : {JNum(n) : n \in ProbePrecips}],
        present \in SUBSET CurrentKeys}

InitScorer ==
    /\ Idle
    /\ probe \in {[phase |-> "observed", current |-> c] : c \in ProbeCurrents}

\* lines 409-473 for that response
Score ==
    /\ probe.phase = "observed"
    /\ LET resp == [kind |-> "response", status_code |-> 200,
                    body |-> JsonObject([current |-> probe.current])]
           r == SamplePoint(texas_counties[1], resp)
       IN  probe' = [phase |-> "scored", current |-> probe.current,
                     raised |-> r.raised, appended |-> r.value]
    /\ UNCHANGED <<op, pc, pending, fire_reqs, fire_resp, fires, idx,
                   wx_requested, wx_resps, weather_risks, features, result>>

SpecScorer == InitScorer /\ [][Score]_vars

(***************************************************************************)
(* The level chain on its own, on every score the clamp can produce.       *)
(***************************************************************************)
InitLevel ==
    /\ Idle
    /\ probe \in {[phase |-> "clamped", risk_score |-> s] : s \in 0..100}

\* lines 441-453
Classify ==
    /\ probe.phase = "clamped"
    /\ probe' = [phase |-> "classified", risk_score |-> probe.risk_score,
                 risk_level |-> RiskLevel(probe.risk_score),
                 color |-> RiskColor(probe.risk_score)]
    /\ UNCHANGED <<op, pc, pending, fire_reqs, fire_resp, fires, idx,
                   wx_requested, wx_resps, weather_risks, features, result>>

SpecLevel == InitLevel /\ [][Classify]_vars

(***************************************************************************)
(* Properties.                                                             *)
(***************************************************************************)
\* the terms of the score as the cumulative table of each factor
TempTerm(t) == IF t > 9500 THEN 40 ELSE IF t > 8500 THEN 25
               ELSE IF t > 7500 THEN 10 ELSE 0

HumidityTerm(h) == IF h < 1500 THEN 35 ELSE IF h < 2500 THEN 25
                   ELSE IF h < 4000 THEN 10 ELSE 0

WindTerm(w) == IF w > 3000 THEN 30 ELSE IF w > 2000 THEN 20
               ELSE IF w > 1000 THEN 10 ELSE 0

PrecipTerm(p) == IF p > 0 THEN -20 ELSE 0

ProbeReading(key, default) ==
    IF key \in DOMAIN probe.current THEN probe.current[key].v ELSE default

ProbeNumeric == \A key \in DOMAIN probe.current : probe.current[key].t = "num"

TermSum ==
    TempTerm(ProbeReading("temperature_2m", 7000))
    + HumidityTerm(ProbeReading("relative_humidity_2m", 5000))
    + WindTerm(ProbeReading("wind_speed_10m", 500))
    + PrecipTerm(ProbeReading("precipitation", 0))

ProbeScored == probe.phase = "scored" /\ Len(probe.appended) = 1

\* C1: the risk score stored in a weather_risk feature is an integer in
\* 0..100, equal to the sum of the temperature, humidity, wind and
\* precipitation terms clamped to 0..100 once, after the last term
C1_ScoreClamped ==
    (probe.phase = "scored" /\ ProbeNumeric) =>
        /\ probe.raised = "none"
        /\ Len(probe.appended) = 1
        /\ LET score == probe.appended[1].properties.risk_score
           IN  /\ score \in 0..100
               /\ score = (IF TermSum > 100 THEN 100
                           ELSE IF TermSum < 0 THEN 0 ELSE TermSum)

\* a 200F, 0% humidity, 300 mph observation: the terms sum to 105, stored 100
C1_Witness ==
    /\ ProbeScored
    /\ ProbeReading("temperature_2m", 7000) = 20000
    /\ ProbeReading("relative_humidity_2m", 5000) = 0
    /\ TermSum = 105
    /\ probe.appended[1].properties.risk_score = 100

\* C2: the level is fixed by the clamped score: 76..100 extreme, 51..75
\* high, 26..50 moderate, 0..25 low, so every score has exactly one level
C2_LevelThresholds ==
    probe.phase = "classified" =>
        LET s == probe.risk_score
            l == probe.risk_level
        IN  /\ l \in {"low", "moderate", "high", "extreme"}
            /\ (l = "extreme") = (s \in 76..100)
            /\ (l = "high") = (s \in 51..75)
            /\ (l = "moderate") = (s \in 26..50)
            /\ (l = "low") = (s \in 0..25)

\* the score 76 has been classified, as extreme
C2_Witness ==
    /\ probe.phase = "classified"
    /\ probe.risk_score = 76
    /\ probe.risk_level = "extreme"

IsFire(f) == f.properties.type = "active_fire"

IsWeather(f) == f.properties.type = "weather_risk"

Levels == {"low", "moderate", "high", "extreme"}

\* get_wildfire_risk has returned its collection to the client
SnapshotReturned == op = "risk" /\ pc = "done" /\ result.status = 200

ColorOf(level) ==
    CASE level = "extreme" -> "#8B0000"
      [] level = "high" -> "#FF4500"
      [] level = "moderate" -> "#FFA500"
      [] level = "low" -> "#90EE90"

\* C3 as stated: every weather_risk feature of the returned snapshot has the
\* colour of its level and the radius 60 / 50 / 40 / 30 km of its level
C3_RadiusPerLevel ==
    SnapshotReturned =>
        \A k \in DOMAIN result.body.features :
            LET f == result.body.features[k]
            IN  IsWeather(f) =>
                  /\ f.properties.color = ColorOf(f.properties.risk_level)
                  /\ f.properties.radius_km =
                        (CASE f.properties.risk_level = "extreme" -> 60
                           [] f.properties.risk_level = "high" -> 50
                           [] f.properties.risk_level = "moderate" -> 40
                           [] f.properties.risk_level = "low" -> 30)

\* C3 amended: every weather_risk feature of the returned snapshot has the
\* colour of its level, and radius 50 km when extreme, 30 km otherwise
C3_RadiusExtremeOrNot ==
    SnapshotReturned =>
        \A k \in DOMAIN result.body.features :
            LET f == result.body.features[k]
            IN  IsWeather(f) =>
                  /\ f.properties.risk_level \in Levels
                  /\ f.properties.color = ColorOf(f.properties.risk_level)
                  /\ f.properties.radius_km =
                        (IF f.properties.risk_level = "extreme" THEN 50 ELSE 30)

\* a returned snapshot with an extreme zone of score 100 and a high zone
C3_Witness ==
    /\ SnapshotReturned
    /\ \E j, k \in DOMAIN result.body.features :
          LET f == result.body.features[j]
              g == result.body.features[k]
          IN  /\ IsWeather(f) /\ IsWeather(g)
              /\ f.properties.risk_score = 100
              /\ f.properties.radius_km = 50
              /\ g.properties.risk_level = "high"
              /\ g.properties.radius_km = 30

\* the exceptions an upstream request or its decoding can raise
UpstreamErrors == {"RequestError", "JSONDecodeError", "TypeError"}

\* C4: the fire feed fetch never raises to its caller and returns a sequence
\* of fire features, empty on a network error and on a non-200 status
C4_FireFetchNeverRaises ==
    fire_resp.kind # "none" =>
        /\ wx_requested # <<>>
        /\ result.error \notin UpstreamErrors
        /\ DOMAIN fires = 1..Len(fires)
        /\ \A k \in DOMAIN fires : IsFire(fires[k])
        /\ (fire_resp.kind = "exception" \/ fire_resp.status_code # 200)
              => fires = <<>>

\* the feed request failed and the handler is sampling weather with no fires
C4_Witness ==
    /\ fire_resp.kind = "exception"
    /\ pc = "wx_get"
    /\ fires = <<>>

\* whether the sampler can make a zone of a weather response
Succeeded(resp) ==
    /\ resp.kind = "response"
    /\ resp.status_code = 200
    /\ resp.body.json = "object"
    /\ "current" \in DOMAIN resp.body.data =>
          \A key \in DOMAIN resp.body.data.current :
              resp.body.data.current[key].t = "num"

RECURSIVE SucceededFrom(_)
SucceededFrom(k) ==
    IF k > Len(wx_resps) THEN <<>>
    ELSE (IF Succeeded(wx_resps[k]) THEN <<texas_counties[k].name>> ELSE <<>>)
         \o SucceededFrom(k + 1)

\* C5: the sampler requests every county once, in list order, whatever the
\* earlier outcomes were; no exception of a request reaches the caller; and
\* the zones returned are those of the counties whose request succeeded, in
\* list order
C5_SamplerToleratesFailures ==
    /\ wx_requested = [k \in 1..idx |-> k]
    /\ idx <= Len(texas_counties)
    /\ result.error \notin UpstreamErrors
    /\ Len(weather_risks) <= Len(wx_resps)
    /\ [k \in 1..Len(weather_risks) |-> weather_risks[k].properties.county]
          = SucceededFrom(1)
    /\ pc = "done" =>
          /\ idx = Len(texas_counties)
          /\ Len(wx_resps) = Len(texas_counties)
          /\ Len(weather_risks) <= Len(texas_counties)

\* the first county failed, the second succeeded, and sampling went on to the end
C5_Witness ==
    /\ pc = "done"
    /\ wx_resps[1].kind = "exception"
    /\ Succeeded(wx_resps[2])
    /\ Len(wx_requested) = Len(texas_counties)
    /\ weather_risks # <<>>
    /\ weather_risks[1].properties.county = texas_counties[2].name

\* C6: the features of the snapshot are the fire detections, in the order
\* the fetch returned them, followed by one zone per weather result, in the
\* order the sampler returned them
C6_FiresThenZones ==
    SnapshotReturned =>
        LET fs == result.body.features
            n == Len(fires)
        IN  /\ Len(fs) = n + Len(weather_risks)
            /\ \A k \in 1..n : fs[k] = fires[k] /\ IsFire(fs[k])
            /\ \A k \in 1..Len(weather_risks) :
                  /\ IsWeather(fs[n + k])
                  /\ fs[n + k].geometry = weather_risks[k].geometry
                  /\ \A key \in DOMAIN weather_risks[k].properties :
                        fs[n + k].properties[key]
                            = weather_risks[k].properties[key]
            /\ \A j, k \in DOMAIN fs : IsFire(fs[j]) /\ IsWeather(fs[k]) => j < k

\* one fire and two zones: the fire is first
C6_Witness ==
    /\ SnapshotReturned
    /\ Len(fires) = 1
    /\ Len(weather_risks) = 2
    /\ IsFire(result.body.features[1])
    /\ IsWeather(result.body.features[2])
    /\ IsWeather(result.body.features[3])

IsHighRisk(f) == IsWeather(f) /\ f.properties.risk_level \in {"high", "extreme"}

\* C7: the alerts endpoint answers with one alert per weather_risk feature
\* whose level is high or extreme, in snapshot order, each with the
\* feature's location label, its level and its temperature, humidity and
\* wind speed, and with count the number of such features
C7_AlertPerHighRisk ==
    (op = "alerts" /\ pc = "done") =>
        LET hi == SelectSeq(features, IsHighRisk)
        IN  /\ result.status = 200
            /\ result.body.count = Len(hi)
            /\ Len(result.body.alerts) = Len(hi)
            /\ \A k \in 1..Len(hi) :
                  LET a == result.body.alerts[k]
                      props == hi[k].properties
                  IN  /\ a.location = props.county
                      /\ a.level = props.risk_level
                      /\ {props.county, props.temperature, props.humidity,
                          props.wind_speed} \subseteq Range(a.message)

\* C8: the statistics endpoint reports, for each of the four levels, the
\* number of weather_risk features at that level, and the number of
\* active_fire features apart; no fire is counted in a level, and the five
\* numbers sum to the number of features
C8_StatsCounts ==
    (op = "stats" /\ pc = "done") =>
        LET zones == result.body.risk_zones
        IN  /\ result.status = 200
            /\ DOMAIN zones = Levels
            /\ \A l \in Levels :
                  zones[l] = Cardinality({k \in DOMAIN features :
                                 /\ IsWeather(features[k])
                                 /\ features[k].properties.risk_level = l})
            /\ result.body.active_fires
                  = Cardinality({k \in DOMAIN features : IsFire(features[k])})
            /\ zones["low"] + zones["moderate"] + zones["high"]
                  + zones["extreme"] + result.body.active_fires
                  = Len(features)

\* statistics over a snapshot with a fire and zones at two levels
C8_Witness ==
    /\ op = "stats"
    /\ pc = "done"
    /\ result.status = 200
    /\ result.body.active_fires >= 1
    /\ result.body.risk_zones["high"] >= 1
    /\ result.body.risk_zones["low"] >= 1

\* C9 as stated: the weather sampling does not wait for the fire feed: while
\* the fire feed request is outstanding the sampling has started
C9_FetchesOverlap ==
    "fire" \in pending => wx_requested # <<>>

\* C9 amended: the two fetches run one after the other: no weather request
\* is issued while the fire feed request is outstanding, and every weather
\* request is issued after the fire feed has answered
C9_SamplingAfterFireFeed ==
    /\ "fire" \in pending => wx_requested = <<>> /\ pc = "fire_get"
    /\ wx_requested # <<>> => fire_resp.kind # "none"
    /\ Cardinality(pending) <= 1

\* a weather request is outstanding, the fire feed having answered
C9_Witness ==
    /\ pending = {"weather"}
    /\ fire_resp.kind = "response"
    /\ fire_reqs = 1

\* C10 as stated: the alerts and statistics endpoints cause no request to
\* the fire feed or to the weather service
C10_SummariesDoNotFetch ==
    op \in {"alerts", "stats"} => fire_reqs = 0 /\ wx_requested = <<>>

\* C10 amended: each of the alerts and statistics endpoints builds a
\* snapshot of its own, with one fire feed request and one weather request
\* per county, and answers from it with no further request
C10_SummariesFetchOnce ==
    op \in {"alerts", "stats"} =>
        /\ fire_reqs = 1
        /\ wx_requested = [k \in 1..idx |-> k]
        /\ pc = "done" =>
              /\ Len(wx_requested) = Len(texas_counties)
              /\ pending = {}

\* the alerts endpoint has answered after one fire feed request and one
\* weather request per county
C10_Witness ==
    /\ op = "alerts"
    /\ pc = "done"
    /\ fire_reqs = 1
    /\ Len(wx_requested) = Len(texas_counties)

\* get_wildfire_risk has answered a request in which the fire feed request
\* failed and every weather request failed
BothSourcesUnusable ==
    /\ op = "risk"
    /\ pc = "done"
    /\ fire_resp.kind = "exception" \/ fire_resp.status_code # 200
    /\ wx_resps # <<>>
    /\ \A k \in DOMAIN wx_resps : ~Succeeded(wx_resps[k])

\* C11 as stated: when the fire feed request fails and every weather
\* request fails, the snapshot operation answers with a failure, not with a
\* snapshot
C11_FailureWhenBothUnusable ==
    BothSourcesUnusable => result.status # 200

\* C11 amended: when the fire feed request fails and every weather request
\* fails, the snapshot operation still answers with a successful snapshot,
\* whose feature list is empty
C11_EmptySnapshotWhenBothUnusable ==
    BothSourcesUnusable =>
        /\ result.status = 200
        /\ result.error = "none"
        /\ result.body.type = "FeatureCollection"
        /\ result.body.features = <<>>

\* the fire feed request raised, every county's request raised or was
\* refused, and the operation has answered
C11_Witness ==
    /\ BothSourcesUnusable
    /\ fire_resp.kind = "exception"
    /\ Len(wx_resps) = Len(texas_counties)
    /\ wx_resps[1].kind = "exception"
    /\ result.status = 200

(***************************************************************************)
(* The fire feed parser on its own: one 200 response, its body any         *)
(* sequence of up to MaxFeedLines feed lines.                              *)
(***************************************************************************)
InitFeed ==
    /\ Idle
    /\ probe \in {[phase |-> "fetched", text |-> t] :
                     t \in SeqsUpTo(FeedLines, MaxFeedLines)}

\* lines 306-341 for that response
ParseFeed ==
    /\ probe.phase = "fetched"
    /\ LET resp == [kind |-> "response", status_code |-> 200,
                    text |-> probe.text]
           r == get_active_fires_texas(resp)
       IN  probe' = [phase |-> "parsed", text |-> probe.text,
                     raised |-> r.raised, fires |-> r.value]
    /\ UNCHANGED <<op, pc, pending, fire_reqs, fire_resp, fires, idx,
                   wx_requested, wx_resps, weather_risks, features, result>>

SpecFeed == InitFeed /\ [][ParseFeed]_vars

\* the positions of the lines of the body that are not blank
NonBlank(text) == {k \in DOMAIN text : text[k] # <<"">>}

Least(S) == CHOOSE k \in S : \A j \in S : k <= j

Greatest(S) == CHOOSE k \in S : \A j \in S : j <= k

\* the rows after the header row: the header is the first line that is not
\* blank, and the rows end with the last line that is not blank
DataRows(text) ==
    IF NonBlank(text) = {} THEN <<>>
    ELSE SubSeq(text, Least(NonBlank(text)) + 1, Greatest(NonBlank(text)))

\* whether a row is a detection inside the Texas box, bounds included
Contributes(values) ==
    /\ Len(values) >= 4
    /\ ParseFloat(values[1]).ok /\ ~ParseFloat(values[1]).nan
    /\ ParseFloat(values[2]).ok /\ ~ParseFloat(values[2]).nan
    /\ ParseFloat(values[1]).v \in 258000..365000
    /\ ParseFloat(values[2]).v \in -1066000..-935000

\* the [lon, lat] of the rows that contribute, in row order
RECURSIVE ExpectedCoordinates(_)
ExpectedCoordinates(rows) ==
    IF rows = <<>> THEN <<>>
    ELSE (IF Contributes(Head(rows))
          THEN << <<ParseFloat(Head(rows)[2]).v, ParseFloat(Head(rows)[1]).v>> >>
          ELSE <<>>)
         \o ExpectedCoordinates(Tail(rows))

\* C12: on a 200 response the header row gives no detection, and each data
\* row gives one exactly when it has at least 4 fields, its first two fields
\* parse and the point is inside the box, bounds included, whatever the
\* rows before it were; so every detection is inside the box and a row at
\* (0, 0) gives none
C12_RowsFilteredIndependently ==
    probe.phase = "parsed" =>
        /\ probe.raised = "none"
        /\ [k \in 1..Len(probe.fires) |-> probe.fires[k].geometry.coordinates]
              = ExpectedCoordinates(DataRows(probe.text))
        /\ \A k \in DOMAIN probe.fires :
              LET c == probe.fires[k].geometry.coordinates
              IN  /\ IsFire(probe.fires[k])
                  /\ c[1] \in -1066000..-935000
                  /\ c[2] \in 258000..365000
                  /\ c # <<0, 0>>

\* a header, a row at (0, 0) and then a row on the corner of the box: only
\* the second row is a detection
C12_Witness ==
    /\ probe.phase = "parsed"
    /\ Len(probe.text) = 3
    /\ probe.text[1] = HeaderLine
    /\ probe.text[2][1] = "0" /\ probe.text[2][2] = "0"
    /\ probe.text[3] = <<"36.5", "-93.5", "305.0", "1.2">>
    /\ Len(probe.fires) = 1
    /\ probe.fires[1].geometry.coordinates = <<-935000, 365000>>

====
